---------------------------- MODULE Spec2Model ----------------------------
(***************************************************************************)
(* Snippetbox: the form validator, the user model, the session/CSRF/auth  *)
(* middleware and the HTTP handlers, as state machines.                    *)
(*                                                                         *)
(* Strings are sequences of bytes, so that blank-ness, rune counts and the  *)
(* e-mail pattern are computed rather than looked up.  An ASCII byte is    *)
(* written as its one-character string, any other byte as its two hex      *)
(* digits.                                                                 *)
(***************************************************************************)
EXTENDS Integers, Sequences, FiniteSets, TLC

(***************************************************************************)
(* Bounds of the model.                                                    *)
(***************************************************************************)
\* Calls made on one Validator value.
MaxCalls == 3

\* Code points in a string handed to MinChars or MaxChars.
MaxStr == 8

\* Values in the permitted list handed to PermittedValue.
MaxPermitted == 3

\* Rows of the snippets table handed to Latest.
MaxRows == 12

(***************************************************************************)
(* Generic helpers for Go maps (functions with a finite domain).           *)
(***************************************************************************)
EmptyMap == [k \in {} |-> ""]

MapPut(m, k, x) == [kk \in (DOMAIN m) \cup {k} |-> IF kk = k THEN x ELSE m[kk]]

MapDelete(m, k) == [kk \in (DOMAIN m) \ {k} |-> m[kk]]

(***************************************************************************)
(* internal/validator                                                      *)
(***************************************************************************)
\* The zero value of the Validator struct: nil map, nil slice.
NewValidator == [FieldErrors |-> EmptyMap, NonFieldErrors |-> <<>>]

\* Valid() as an older revision had it: the map only.
ValidFieldErrorsOnly(vd) == Cardinality(DOMAIN vd.FieldErrors) = 0

Valid(vd) ==
    Cardinality(DOMAIN vd.FieldErrors) = 0 /\ Len(vd.NonFieldErrors) = 0

\* AddFieldError without the "exists" test: the last message wins.
AddFieldErrorOverwrite(vd, key, message) ==
    [vd EXCEPT !.FieldErrors = MapPut(@, key, message)]

AddFieldError(vd, key, message) ==
    IF key \notin DOMAIN vd.FieldErrors
    THEN [vd EXCEPT !.FieldErrors = MapPut(@, key, message)]
    ELSE vd

\* AddNonFieldError that does not record a message it already holds.
AddNonFieldErrorNoDuplicates(vd, message) ==
    IF \E i \in 1..Len(vd.NonFieldErrors) : vd.NonFieldErrors[i] = message
    THEN vd
    ELSE [vd EXCEPT !.NonFieldErrors = Append(@, message)]

AddNonFieldError(vd, message) ==
    [vd EXCEPT !.NonFieldErrors = Append(@, message)]

CheckField(vd, ok, key, message) ==
    IF ~ok THEN AddFieldError(vd, key, message) ELSE vd

(***************************************************************************)
(* Strings.                                                                *)
(***************************************************************************)
WhiteSpace == {" ", "\t", "\n", "\r"}

Letters == {"a", "b", "c", "n", "p", "q", "t"}

Digits == {"0", "1", "2", "3", "4", "5", "6", "7", "8", "9"}

Alnum == Letters \cup Digits

\* The characters the e-mail pattern allows before the "@" (its backquote is
\* left out: no string of the model holds one).
LocalChars ==
    Alnum \cup {".", "!", "#", "$", "%", "&", "'", "*", "+", "/", "=", "?",
                "^", "_", "{", "|", "}", "~", "-"}

RECURSIVE TrimLeft(_)
TrimLeft(value) ==
    IF value /= <<>> /\ Head(value) \in WhiteSpace
    THEN TrimLeft(Tail(value))
    ELSE value

RECURSIVE TrimRight(_)
TrimRight(value) ==
    IF value /= <<>> /\ value[Len(value)] \in WhiteSpace
    THEN TrimRight(SubSeq(value, 1, Len(value) - 1))
    ELSE value

\* strings.TrimSpace
TrimSpace(value) == TrimRight(TrimLeft(value))

\* The bytes of UTF-8 beyond ASCII that the model's strings hold: the lead
\* byte of a two-byte and of a three-byte encoding, and continuation bytes.
Utf8Lead2 == {"C3"}
Utf8Lead3 == {"E2"}
Utf8Cont == {"A9", "82", "AC"}

\* The width in bytes of the rune a non-empty string starts with.  A lead
\* byte without its continuation bytes, or a stray continuation byte, is an
\* encoding error of width 1.
RuneSize(value) ==
    IF /\ Head(value) \in Utf8Lead2
       /\ Len(value) >= 2
       /\ value[2] \in Utf8Cont
    THEN 2
    ELSE IF /\ Head(value) \in Utf8Lead3
            /\ Len(value) >= 3
            /\ value[2] \in Utf8Cont
            /\ value[3] \in Utf8Cont
    THEN 3
    ELSE 1

\* len(value): the number of bytes.
RuneCountInStringBytes(value) == Len(value)

RECURSIVE RuneCountInString(_)
\* utf8.RuneCountInString: the number of runes the bytes decode to.
RuneCountInString(value) ==
    IF value = <<>> THEN 0
    ELSE 1 + RuneCountInString(SubSeq(value, RuneSize(value) + 1, Len(value)))

NotBlank(value) == TrimSpace(value) /= <<>>

MaxChars(value, n) == RuneCountInString(value) <= n

MinChars(value, n) == RuneCountInString(value) >= n

\* PermittedValue that takes the permitted values for the ends of a range.
PermittedValueRange(value, permittedValues) ==
    /\ \E i \in 1..Len(permittedValues) : permittedValues[i] <= value
    /\ \E i \in 1..Len(permittedValues) : value <= permittedValues[i]

\* PermittedValue that looks at the first permitted value only.
PermittedValueFirstOnly(value, permittedValues) ==
    Len(permittedValues) > 0 /\ value = permittedValues[1]

PermittedValue(value, permittedValues) ==
    \E i \in 1..Len(permittedValues) : value = permittedValues[i]

\* One label of the domain: an alphanumeric, then at most 61 alphanumerics or
\* hyphens and a closing alphanumeric.
EmailLabel(l) ==
    /\ Len(l) >= 1
    /\ Len(l) <= 63
    /\ l[1] \in Alnum
    /\ l[Len(l)] \in Alnum
    /\ \A i \in 1..Len(l) : l[i] \in Alnum \cup {"-"}

RECURSIVE EmailDomain(_)
\* label ("." label)*
EmailDomain(d) ==
    \/ EmailLabel(d)
    \/ \E i \in 2..(Len(d) - 1) :
          /\ d[i] = "."
          /\ EmailLabel(SubSeq(d, 1, i - 1))
          /\ EmailDomain(SubSeq(d, i + 1, Len(d)))

\* EmailRX.MatchString(value): ^local+@label(\.label)*$
EmailRX(value) ==
    \E i \in 2..(Len(value) - 1) :
        /\ value[i] = "@"
        /\ \A j \in 1..(i - 1) : value[j] \in LocalChars
        /\ EmailDomain(SubSeq(value, i + 1, Len(value)))

\* Matches(value, rx), for the one pattern the handlers pass.
Matches(value, rx) == IF rx = "EmailRX" THEN EmailRX(value) ELSE FALSE

DigitValue(c) ==
    CHOOSE d \in 0..9 : <<"0", "1", "2", "3", "4", "5", "6", "7", "8", "9">>[d + 1] = c

RECURSIVE ParseDigits(_, _)
ParseDigits(str, acc) ==
    IF str = <<>> THEN acc
    ELSE ParseDigits(Tail(str), acc * 10 + DigitValue(Head(str)))

\* strconv.Atoi: an optional sign, then one or more decimal digits.
Atoi(str) ==
    LET signed == str /= <<>> /\ Head(str) \in {"+", "-"}
        digits == IF signed THEN Tail(str) ELSE str
    IN  IF digits = <<>> \/ \E i \in 1..Len(digits) : digits[i] \notin Digits
        THEN [n |-> 0, err |-> "ErrSyntax"]
        ELSE [n |-> IF signed /\ Head(str) = "-"
                    THEN 0 - ParseDigits(digits, 0)
                    ELSE ParseDigits(digits, 0),
              err |-> "nil"]

(***************************************************************************)
(* internal/models: errors and the user model.  The users table is a set  *)
(* of rows; dbOk says whether the database answered the statement.         *)
(***************************************************************************)
ErrNoRecord == "models: no matching record found"

ErrInvalidCredentials == "models: invalid credentials"

ErrDuplicateEmail == "models: duplicate email"

\* Any other error of the driver or of the connection.
ErrDriver == "driver: bad connection"

\* bcrypt.GenerateFromPassword(password, cost); the salt is not represented.
BcryptCost == 12

GenerateFromPassword(password, cost) ==
    [alg |-> "bcrypt", cost |-> cost, password |-> password]

\* bcrypt.CompareHashAndPassword
CompareHashAndPassword(hashedPassword, password) ==
    IF hashedPassword.password = password
    THEN "nil"
    ELSE "ErrMismatchedHashAndPassword"

\* Authenticate that reports every failure as invalid credentials.
AuthenticateAllInvalid(tbl, email, password, dbOk) ==
    IF ~dbOk \/ ~\E u \in tbl : u.email = email
    THEN [id |-> 0, err |-> ErrInvalidCredentials]
    ELSE LET u == CHOOSE u \in tbl : u.email = email
         IN  IF CompareHashAndPassword(u.hashed_password, password) /= "nil"
             THEN [id |-> 0, err |-> ErrInvalidCredentials]
             ELSE [id |-> u.id, err |-> "nil"]

\* UserInsert that does not tell the duplicate e-mail from other failures.
UserInsertNoDuplicate(tbl, nextId, name, email, password, dbOk) ==
    IF ~dbOk \/ \E u \in tbl : u.email = email
    THEN [users |-> tbl, nextId |-> nextId, err |-> ErrDriver]
    ELSE [users |-> tbl \cup {[id |-> nextId, name |-> name, email |-> email,
                               hashed_password |->
                                   GenerateFromPassword(password, BcryptCost)]},
          nextId |-> nextId + 1,
          err |-> "nil"]

\* UserModel.Insert: the new table, the next AUTO_INCREMENT value and the error.
UserInsert(tbl, nextId, name, email, password, dbOk) ==
    LET hashedPassword == GenerateFromPassword(password, BcryptCost)
    IN  IF ~dbOk
        THEN [users |-> tbl, nextId |-> nextId, err |-> ErrDriver]
        ELSE IF \E u \in tbl : u.email = email
        THEN \* MySQL error 1062 on users_uc_email
             [users |-> tbl, nextId |-> nextId, err |-> ErrDuplicateEmail]
        ELSE [users |-> tbl \cup {[id |-> nextId, name |-> name, email |-> email,
                                   hashed_password |-> hashedPassword]},
              nextId |-> nextId + 1,
              err |-> "nil"]

\* Authenticate that tells a missing e-mail from a wrong password.
AuthenticateDistinguishing(tbl, email, password, dbOk) ==
    IF ~dbOk THEN [id |-> 0, err |-> ErrDriver]
    ELSE IF ~\E u \in tbl : u.email = email
    THEN [id |-> 0, err |-> ErrNoRecord]
    ELSE LET u == CHOOSE u \in tbl : u.email = email
         IN  IF CompareHashAndPassword(u.hashed_password, password) /= "nil"
             THEN [id |-> 0, err |-> ErrInvalidCredentials]
             ELSE [id |-> u.id, err |-> "nil"]

\* UserModel.Authenticate
Authenticate(tbl, email, password, dbOk) ==
    IF ~dbOk THEN [id |-> 0, err |-> ErrDriver]
    ELSE IF ~\E u \in tbl : u.email = email
    THEN \* sql.ErrNoRows
         [id |-> 0, err |-> ErrInvalidCredentials]
    ELSE LET u == CHOOSE u \in tbl : u.email = email
         IN  IF CompareHashAndPassword(u.hashed_password, password) /= "nil"
             THEN [id |-> 0, err |-> ErrInvalidCredentials]
             ELSE [id |-> u.id, err |-> "nil"]

\* UserModel.Exists
Exists(tbl, id, dbOk) ==
    IF ~dbOk THEN [exists |-> FALSE, err |-> ErrDriver]
    ELSE [exists |-> \E u \in tbl : u.id = id, err |-> "nil"]

(***************************************************************************)
(* internal/models: the snippet model.  Times are whole days.              *)
(***************************************************************************)
\* SnippetModel.Insert.  A failed Exec is reported as id 0 with a nil error.
SnippetInsert(tbl, nextId, title, content, expires, today, dbOk) ==
    IF ~dbOk
    THEN [snippets |-> tbl, nextId |-> nextId, id |-> 0, err |-> "nil"]
    ELSE [snippets |-> tbl \cup {[id |-> nextId, title |-> title,
                                  content |-> content, created |-> today,
                                  expires |-> today + expires]},
          nextId |-> nextId + 1,
          id |-> nextId,
          err |-> "nil"]

\* SnippetModel.Get that does not look at the expiry.
SnippetGetIgnoreExpiry(tbl, id, today, dbOk) ==
    IF ~dbOk THEN [found |-> FALSE, err |-> ErrDriver]
    ELSE IF \E r \in tbl : r.id = id
    THEN [found |-> TRUE, err |-> "nil"]
    ELSE [found |-> FALSE, err |-> ErrNoRecord]

\* SnippetModel.Get
SnippetGet(tbl, id, today, dbOk) ==
    IF ~dbOk THEN [found |-> FALSE, err |-> ErrDriver]
    ELSE IF \E r \in tbl : r.id = id /\ r.expires > today
    THEN [found |-> TRUE, err |-> "nil"]
    ELSE [found |-> FALSE, err |-> ErrNoRecord]

\* The LIMIT of SnippetModel.Latest.
LatestLimit == 10

RECURSIVE OrderByIdDesc(_)
\* ORDER BY id DESC, over a set of ids.
OrderByIdDesc(ids) ==
    IF ids = {} THEN <<>>
    ELSE LET top == CHOOSE i \in ids : \A j \in ids : j <= i
         IN  <<top>> \o OrderByIdDesc(ids \ {top})

RECURSIVE OrderByIdAsc(_)
\* ORDER BY id ASC, over a set of ids.
OrderByIdAsc(ids) ==
    IF ids = {} THEN <<>>
    ELSE LET low == CHOOSE i \in ids : \A j \in ids : i <= j
         IN  <<low>> \o OrderByIdAsc(ids \ {low})

\* LIMIT n, over the rows in their order.
Limit(rows, n) == SubSeq(rows, 1, IF Len(rows) < n THEN Len(rows) ELSE n)

\* SnippetModel.Latest whose statement orders by id ascending.
SnippetLatestOldestFirst(tbl, today, dbOk) ==
    IF ~dbOk THEN [ids |-> <<>>, err |-> ErrDriver]
    ELSE LET live == {r.id : r \in {x \in tbl : x.expires > today}}
         IN  [ids |-> Limit(OrderByIdAsc(live), LatestLimit), err |-> "nil"]

\* SnippetModel.Latest: the ids of the rows of
\* WHERE expires > UTC_TIMESTAMP() ORDER BY id DESC LIMIT 10, in their order.
SnippetLatest(tbl, today, dbOk) ==
    IF ~dbOk THEN [ids |-> <<>>, err |-> ErrDriver]
    ELSE LET live == {r.id : r \in {x \in tbl : x.expires > today}}
         IN  [ids |-> Limit(OrderByIdDesc(live), LatestLimit), err |-> "nil"]

(***************************************************************************)
(* The session manager (scs): the session data a request carries in its   *)
(* context, and the store of committed sessions, token -> values.          *)
(***************************************************************************)
\* A request that did not pass through LoadAndSave has no session data.
NoSessionData ==
    [loaded |-> FALSE, token |-> 0, values |-> EmptyMap, status |-> "Unmodified"]

\* SessionManager.Load: an unknown (or no) token starts an empty session.
SessionLoad(storeTbl, token) ==
    IF token \in DOMAIN storeTbl
    THEN [loaded |-> TRUE, token |-> token, values |-> storeTbl[token],
          status |-> "Unmodified"]
    ELSE [loaded |-> TRUE, token |-> 0, values |-> EmptyMap,
          status |-> "Unmodified"]

SessionPut(sd, key, val) ==
    [sd EXCEPT !.values = MapPut(@, key, val), !.status = "Modified"]

SessionRemove(sd, key) ==
    IF key \in DOMAIN sd.values
    THEN [sd EXCEPT !.values = MapDelete(@, key), !.status = "Modified"]
    ELSE sd

\* SessionManager.GetInt: the zero value when the key is absent.
SessionGetInt(sd, key) ==
    IF key \in DOMAIN sd.values THEN sd.values[key] ELSE 0

\* SessionManager.PopString: the value and the session data without the key.
SessionPopString(sd, key) ==
    IF key \in DOMAIN sd.values
    THEN [val |-> sd.values[key],
          sd |-> [sd EXCEPT !.values = MapDelete(@, key), !.status = "Modified"]]
    ELSE [val |-> "", sd |-> sd]

\* SessionManager.RenewToken: the old token is deleted from the store at once,
\* the new one reaches the store when the session is committed.
SessionRenewToken(sd, storeTbl, newToken, ok) ==
    IF ~ok
    THEN [sd |-> sd, store |-> storeTbl, err |-> ErrDriver]
    ELSE [sd |-> [sd EXCEPT !.token = newToken, !.status = "Modified"],
          store |-> MapDelete(storeTbl, sd.token),
          err |-> "nil"]

\* SessionManager.Commit, as LoadAndSave calls it for a modified session.
SessionCommit(sd, storeTbl, newToken) ==
    LET token == IF sd.token = 0 THEN newToken ELSE sd.token
    IN  [token |-> token, store |-> MapPut(storeTbl, token, sd.values)]

(***************************************************************************)
(* A request in flight and the helpers of cmd/web/helpers.go.              *)
(***************************************************************************)
StatusOK == 200

StatusSeeOther == 303

StatusBadRequest == 400

StatusNotFound == 404

StatusUnprocessableEntity == 422

StatusInternalServerError == 500

NoForm == [kind |-> "none"]

IdleRequest ==
    [pc |-> "idle", chain |-> <<>>, method |-> "", path |-> "",
     cookie |-> 0, sess |-> NoSessionData,
     csrfSent |-> "", csrfReal |-> "", isAuthenticated |-> FALSE,
     header |-> {}, resp |-> <<>>, trace |-> <<>>, calls |-> <<>>,
     form |-> NoForm, body |-> NoForm, param |-> <<>>, db |-> "none",
     heldToken |-> 0,
     setCookie |-> 0,
     authRes |-> [id |-> 0, err |-> "none"]]

\* One write to the http.ResponseWriter.
Write(r, status, what, data) ==
    [r EXCEPT !.resp = Append(@, [status |-> status, what |-> what, data |-> data])]

NoData ==
    [Flash |-> "", IsAuthenticated |-> FALSE, Form |-> NoForm,
     Snippet |-> 0, Snippets |-> <<>>]

\* The handler returns: control goes back up the chain.
Return(r) ==
    [r EXCEPT !.pc = IF r.sess.loaded THEN "commit" ELSE "done", !.chain = <<>>]

\* next.ServeHTTP(w, r)
ServeNext(r) ==
    [r EXCEPT !.pc = Head(r.chain), !.chain = Tail(r.chain),
              !.trace = Append(@, Head(r.chain))]

\* A panic unwinds to the deferred function of recoverPanic.
Panic(r, value) ==
    [r EXCEPT !.pc = "panic", !.chain = <<>>, !.calls = Append(@, value)]

Called(r, what) == [r EXCEPT !.calls = Append(@, what)]

serverError(r, err) ==
    Write(r, StatusInternalServerError, "Internal Server Error", NoData)

clientError(r, status) == Write(r, status, "error", NoData)

notFound(r) == clientError(r, StatusNotFound)

\* http.Redirect
Redirect(r, url, status) == Write(r, status, url, NoData)

isAuthenticated(r) == r.isAuthenticated

\* newTemplateData pops the flash message from the session.
\* newTemplateData that reads the flash with GetString, which leaves it in
\* the session.
newTemplateDataKeepFlash(r) ==
    [r |-> r,
     data |-> [NoData EXCEPT
                 !.Flash = IF "flash" \in DOMAIN r.sess.values
                           THEN r.sess.values["flash"] ELSE "",
                 !.IsAuthenticated = isAuthenticated(r)]]

newTemplateData(r) ==
    LET popped == SessionPopString(r.sess, "flash")
    IN  [r |-> [r EXCEPT !.sess = popped.sd],
         data |-> [NoData EXCEPT !.Flash = popped.val,
                                 !.IsAuthenticated = isAuthenticated(r)]]

\* render, with every page present in the template cache.
render(r, status, page, data) == Write(r, status, page, data)

\* newTemplateData, the form attached, render: what every page handler does.
\* Without session data in the context PopString panics.
\* renderPage that leaves the form out of the template data.
renderPageBlankForm(r, status, page, form) ==
    IF ~r.sess.loaded
    THEN Panic(r, "scs: no session data in context")
    ELSE LET td == newTemplateData(r)
         IN  render(td.r, status, page, td.data)

renderPage(r, status, page, form) ==
    IF ~r.sess.loaded
    THEN Panic(r, "scs: no session data in context")
    ELSE LET td == newTemplateData(r)
         IN  render(td.r, status, page, [td.data EXCEPT !.Form = form])

\* The handler's return statement, unless a panic is already unwinding.
Returned(r) == IF r.pc = "panic" THEN r ELSE Return(r)

(***************************************************************************)
(* cmd/web/routes.go: the middleware.                                      *)
(***************************************************************************)
\* recoverPanic: the deferred function is the action RecoverPanic below.
recoverPanic(r) == ServeNext(r)

logRequest(r) == ServeNext(r)

secureHeaders(r) ==
    ServeNext([r EXCEPT !.header = @ \cup
        {"Content-Security-Policy", "Referrer-Policy: origin-when-cross-origin",
         "X-Content-Type-Options: nosniff", "X-Frame-Options: deny",
         "X-XSS-Protection: 0"}])

\* The deferred function without the Connection header.
recoveredKeepAlive(r) == [serverError(r, "panic") EXCEPT !.pc = "done"]

\* What the deferred function of recoverPanic does with a recovered panic.
recovered(r) ==
    [serverError([r EXCEPT !.header = @ \cup {"Connection: close"}], "panic")
        EXCEPT !.pc = "done"]

\* requireAuthentication that lets every request through.
requireAuthenticationOpen(r) ==
    ServeNext([r EXCEPT !.header = @ \cup {"Cache-Control: no-store"}])

requireAuthentication(r) ==
    IF ~isAuthenticated(r)
    THEN Return(Redirect(r, "/user/login", StatusSeeOther))
    ELSE ServeNext([r EXCEPT !.header = @ \cup {"Cache-Control: no-store"}])

SafeMethods == {"GET", "HEAD", "OPTIONS", "TRACE"}

\* noSurf that checks the token of anonymous requests only.
noSurfAnonymousOnly(r, cookie, sent, fresh) ==
    LET real == IF cookie = "" THEN fresh ELSE cookie
        r1 == [r EXCEPT !.csrfReal = real, !.csrfSent = sent,
                        !.header = @ \cup {"Vary: Cookie"}]
    IN  IF r.method \in SafeMethods
           \/ "authenticatedUserID" \in DOMAIN r.sess.values
        THEN ServeNext(r1)
        ELSE IF sent /= real
        THEN Return(clientError(r1, StatusBadRequest))
        ELSE ServeNext(r1)

\* noSurf: the nosurf handler around next.  cookie is the token of the CSRF
\* cookie ("" without one, and then fresh is generated), sent the token the
\* request submits ("" when it submits none).
noSurf(r, cookie, sent, fresh) ==
    LET real == IF cookie = "" THEN fresh ELSE cookie
        r1 == [r EXCEPT !.csrfReal = real, !.csrfSent = sent,
                        !.header = @ \cup {"Vary: Cookie"}]
    IN  IF r.method \in SafeMethods
        THEN ServeNext(r1)
        ELSE IF sent /= real
        THEN Return(clientError(r1, StatusBadRequest))
        ELSE ServeNext(r1)

\* authenticate that trusts the session and does not ask the users table.
authenticateNoExists(r, tbl, dbOk) ==
    IF ~r.sess.loaded
    THEN Panic(r, "scs: no session data in context")
    ELSE IF SessionGetInt(r.sess, "authenticatedUserID") = 0
    THEN ServeNext(r)
    ELSE ServeNext([r EXCEPT !.isAuthenticated = TRUE])

authenticate(r, tbl, dbOk) ==
    IF ~r.sess.loaded
    THEN Panic(r, "scs: no session data in context")
    ELSE LET id == SessionGetInt(r.sess, "authenticatedUserID")
             ex == Exists(tbl, id, dbOk)
             r1 == Called([r EXCEPT !.db = IF dbOk THEN "ok" ELSE "err"],
                          "users.Exists")
         IN  IF id = 0 THEN ServeNext(r)
             ELSE IF ex.err /= "nil" THEN Return(serverError(r1, ex.err))
             ELSE IF ex.exists
             THEN ServeNext([r1 EXCEPT !.isAuthenticated = TRUE])
             ELSE ServeNext(r1)

\* LoadAndSave, on the way in: the session of the cookie's token is loaded.
LoadAndSave(r, storeTbl, token) ==
    ServeNext([r EXCEPT !.cookie = token,
                        !.sess = SessionLoad(storeTbl, token),
                        !.heldToken = SessionLoad(storeTbl, token).token,
                        !.header = @ \cup {"Vary: Cookie"}])

(***************************************************************************)
(* cmd/web/routes.go: the routes.  A route is the chain of handlers the    *)
(* router runs for a method and a path.                                    *)
(***************************************************************************)
\* application.routes
routes(method, path) ==
    CASE method = "GET" /\ path = "/" -> <<"home">>
      [] method = "GET" /\ path = "/snippet/view/:id" -> <<"snippetView">>
      [] method = "GET" /\ path = "/snippet/create" -> <<"snippetCreate">>
      [] method = "POST" /\ path = "/snippet/create" -> <<"snippetCreatePost">>
      [] OTHER -> <<"NotFound">>

\* The chains of the session-aware router: every route loads the session,
\* checks the CSRF token and resolves the user; the protected ones add the
\* authorization gate.
dynamic == <<"LoadAndSave", "noSurf", "authenticate">>

protected == dynamic \o <<"requireAuthentication">>

routesDynamic(method, path) ==
    CASE method = "GET" /\ path = "/" -> dynamic \o <<"home">>
      [] method = "GET" /\ path = "/snippet/view/:id" -> dynamic \o <<"snippetView">>
      [] method = "GET" /\ path = "/user/signup" -> dynamic \o <<"userSignup">>
      [] method = "POST" /\ path = "/user/signup" -> dynamic \o <<"userSignupPost">>
      [] method = "GET" /\ path = "/user/login" -> dynamic \o <<"userLogin">>
      [] method = "POST" /\ path = "/user/login" -> dynamic \o <<"userLoginPost">>
      [] method = "GET" /\ path = "/snippet/create" -> protected \o <<"snippetCreate">>
      [] method = "POST" /\ path = "/snippet/create" -> protected \o <<"snippetCreatePost">>
      [] method = "POST" /\ path = "/user/logout" -> protected \o <<"userLogoutPost">>
      [] OTHER -> <<"NotFound">>

\* The handler routes() returns, up to the router: the standard chain.
standard(r) == secureHeaders(logRequest(recoverPanic(ServeNext(r))))

\* A request as the server hands it to the handler of routes().
NewRequest(method, path) ==
    [IdleRequest EXCEPT !.method = method, !.path = path,
                        !.pc = "server",
                        !.chain = <<"recoverPanic", "logRequest",
                                    "secureHeaders", "router">>]

(***************************************************************************)
(* cmd/web/handlers.go.  A handler gets the request, what the request body *)
(* holds, the tables it reads, and how the database answers; it gives the  *)
(* request after the handler and the tables it wrote.                      *)
(***************************************************************************)
home(r, tbl, today, dbOk) ==
    LET latest == SnippetLatest(tbl, today, dbOk)
        r1 == Called(r, "snippets.Latest")
    IN  IF latest.err /= "nil"
        THEN Return(serverError(r1, latest.err))
        ELSE IF ~r1.sess.loaded
        THEN Panic(r1, "scs: no session data in context")
        ELSE LET td == newTemplateData(r1)
             IN  Return(render(td.r, StatusOK, "home.tmpl",
                               [td.data EXCEPT !.Snippets = latest.ids]))

snippetView(r, param, tbl, today, dbOk) ==
    LET parsed == Atoi(param)
        got == SnippetGet(tbl, parsed.n, today, dbOk)
        r0 == [r EXCEPT !.param = param]
        r1 == Called([r0 EXCEPT !.db = IF dbOk THEN "ok" ELSE "err"],
                     "snippets.Get")
    IN  IF parsed.err /= "nil" \/ parsed.n < 1
        THEN Return(notFound(r0))
        ELSE IF got.err = ErrNoRecord THEN Return(notFound(r1))
        ELSE IF got.err /= "nil" THEN Return(serverError(r1, got.err))
        ELSE IF ~r1.sess.loaded
        THEN Panic(r1, "scs: no session data in context")
        ELSE LET td == newTemplateData(r1)
             IN  Return(render(td.r, StatusOK, "view.tmpl",
                               [td.data EXCEPT !.Snippet = parsed.n]))

snippetCreateForm(title, content, expires) ==
    [kind |-> "snippetCreateForm", Title |-> title, Content |-> content,
     Expires |-> expires, Validator |-> NewValidator]

snippetCreate(r) ==
    Returned(renderPage(r, StatusOK, "create.tmpl",
                        snippetCreateForm(<<>>, <<>>, 365)))

\* decodePostForm into a snippetCreateForm: the body must parse and the
\* expires value must be an integer.
decodeSnippetCreateFormLenient(body) ==
    LET expires == Atoi(body.expires)
    IN  IF ~body.parseOk THEN [err |-> "ParseForm", form |-> NoForm]
        ELSE [err |-> "nil",
              form |-> snippetCreateForm(body.title, body.content, expires.n)]

decodeSnippetCreateForm(body) ==
    LET expires == Atoi(body.expires)
    IN  IF ~body.parseOk THEN [err |-> "ParseForm", form |-> NoForm]
        ELSE IF expires.err /= "nil" THEN [err |-> "Decode", form |-> NoForm]
        ELSE [err |-> "nil",
              form |-> snippetCreateForm(body.title, body.content, expires.n)]

snippetCreatePost(r, body, tbl, nextId, today, dbOk) ==
    LET decoded == decodeSnippetCreateForm(body)
        f0 == decoded.form
        v1 == CheckField(f0.Validator, NotBlank(f0.Title), "title",
                         "This field cannot be blank")
        v2 == CheckField(v1, MaxChars(f0.Title, 100), "title",
                         "This field cannot be more than 100 characters long")
        v3 == CheckField(v2, NotBlank(f0.Content), "content",
                         "This field cannot be blank")
        v4 == CheckField(v3, PermittedValue(f0.Expires, <<1, 7, 365>>), "expires",
                         "This field must equal 1, 7, or 365")
        form == [f0 EXCEPT !.Validator = v4]
        ins == SnippetInsert(tbl, nextId, form.Title, form.Content,
                             form.Expires, today, dbOk)
        r1 == Called([r EXCEPT !.form = form,
                               !.db = IF dbOk THEN "ok" ELSE "err"],
                     "snippets.Insert")
    IN  IF decoded.err /= "nil"
        THEN [r |-> Return(clientError(r, StatusBadRequest)),
              snippets |-> tbl, nextId |-> nextId]
        ELSE IF ~Valid(form.Validator)
        THEN [r |-> Returned(renderPage([r EXCEPT !.form = form],
                                        StatusUnprocessableEntity,
                                        "create.tmpl", form)),
              snippets |-> tbl, nextId |-> nextId]
        ELSE IF ins.err /= "nil"
        THEN [r |-> Return(serverError(r1, ins.err)),
              snippets |-> ins.snippets, nextId |-> ins.nextId]
        ELSE IF ~r1.sess.loaded
        THEN [r |-> Panic(r1, "scs: no session data in context"),
              snippets |-> ins.snippets, nextId |-> ins.nextId]
        ELSE [r |-> Return(Write(
                        [r1 EXCEPT !.sess = SessionPut(@, "flash",
                                          "Snippet successfully created!")],
                        StatusSeeOther, "/snippet/view/%d",
                        [NoData EXCEPT !.Snippet = ins.id])),
              snippets |-> ins.snippets, nextId |-> ins.nextId]

userSignupForm(name, email, password) ==
    [kind |-> "userSignupForm", Name |-> name, Email |-> email,
     Password |-> password, Validator |-> NewValidator]

userSignup(r) ==
    Returned(renderPage(r, StatusOK, "signup.tmpl",
                        userSignupForm(<<>>, <<>>, <<>>)))

userSignupPost(r, body, tbl, nextId, dbOk) ==
    LET f0 == userSignupForm(body.name, body.email, body.password)
        v1 == CheckField(f0.Validator, NotBlank(f0.Name), "name",
                         "This field cannot be blank")
        v2 == CheckField(v1, NotBlank(f0.Email), "email",
                         "This field cannot be blank")
        v3 == CheckField(v2, Matches(f0.Email, "EmailRX"), "email",
                         "This field must be a valid email address")
        v4 == CheckField(v3, NotBlank(f0.Password), "password",
                         "This field cannot be blank")
        v5 == CheckField(v4, MinChars(f0.Password, 8), "password",
                         "This field must be at least 8 characters long")
        form == [f0 EXCEPT !.Validator = v5]
        ins == UserInsert(tbl, nextId, form.Name, form.Email, form.Password, dbOk)
        r1 == Called([r EXCEPT !.form = form,
                               !.db = IF dbOk THEN "ok" ELSE "err"],
                     "users.Insert")
        dup == [form EXCEPT !.Validator =
                   AddFieldError(@, "email", "Email address is already in use")]
    IN  IF ~body.parseOk
        THEN [r |-> Return(clientError(r, StatusBadRequest)),
              users |-> tbl, nextId |-> nextId]
        ELSE IF ~Valid(form.Validator)
        THEN [r |-> Returned(renderPage([r EXCEPT !.form = form],
                                        StatusUnprocessableEntity,
                                        "signup.tmpl", form)),
              users |-> tbl, nextId |-> nextId]
        ELSE IF ins.err = ErrDuplicateEmail
        THEN [r |-> Returned(renderPage([r1 EXCEPT !.form = dup],
                                        StatusUnprocessableEntity,
                                        "signup.tmpl", dup)),
              users |-> ins.users, nextId |-> ins.nextId]
        ELSE IF ins.err /= "nil"
        THEN [r |-> Return(serverError(r1, ins.err)),
              users |-> ins.users, nextId |-> ins.nextId]
        ELSE IF ~r1.sess.loaded
        THEN [r |-> Panic(r1, "scs: no session data in context"),
              users |-> ins.users, nextId |-> ins.nextId]
        ELSE [r |-> Return(Redirect(
                        [r1 EXCEPT !.sess = SessionPut(@, "flash",
                              "Your signup was successful. Please log in.")],
                        "/user/login", StatusSeeOther)),
              users |-> ins.users, nextId |-> ins.nextId]

userLoginForm(email, password) ==
    [kind |-> "userLoginForm", Email |-> email, Password |-> password,
     Validator |-> NewValidator]

userLogin(r) ==
    Returned(renderPage(r, StatusOK, "login.tmpl", userLoginForm(<<>>, <<>>)))

\* The end of userLoginPost that puts the user id into the session without
\* renewing the session token.
userLoginPostKeepToken(r, storeTbl, newToken, renewOk, id) ==
    IF ~r.sess.loaded
    THEN [r |-> Panic(r, "scs: no session data in context"),
          store |-> storeTbl, renewed |-> FALSE]
    ELSE [r |-> Return(Redirect(
                    [r EXCEPT !.sess = SessionPut(@, "authenticatedUserID", id)],
                    "/snippet/create", StatusSeeOther)),
          store |-> storeTbl, renewed |-> FALSE]

\* The end of userLoginPost, once Authenticate has returned id: the token is
\* renewed, the id is put into the session, the client is redirected.
userLoginPostRenew(r, storeTbl, newToken, renewOk, id) ==
    LET renew == SessionRenewToken(r.sess, storeTbl, newToken, renewOk)
        r1 == Called(r, "sessionManager.RenewToken")
    IN  IF ~r.sess.loaded
        THEN [r |-> Panic(r, "scs: no session data in context"),
              store |-> storeTbl, renewed |-> FALSE]
        ELSE IF renew.err /= "nil"
        THEN [r |-> Return(serverError(r1, renew.err)),
              store |-> storeTbl, renewed |-> FALSE]
        ELSE [r |-> Return(Redirect(
                        [r1 EXCEPT !.sess = SessionPut(renew.sd,
                                       "authenticatedUserID", id)],
                        "/snippet/create", StatusSeeOther)),
              store |-> renew.store, renewed |-> TRUE]

\* userLoginPost.  After rendering an invalid form the handler goes on to
\* Authenticate: the branch of "if !form.Valid()" has no return.
userLoginPost(r, body, tbl, storeTbl, newToken, dbOk, renewOk) ==
    LET f0 == userLoginForm(body.email, body.password)
        v1 == CheckField(f0.Validator, NotBlank(f0.Email), "email",
                         "This field cannot be blank")
        v2 == CheckField(v1, Matches(f0.Email, "EmailRX"), "email",
                         "This field must be a valid email address")
        v3 == CheckField(v2, NotBlank(f0.Password), "password",
                         "This field cannot be blank")
        form == [f0 EXCEPT !.Validator = v3]
        r0 == [r EXCEPT !.form = form]
        rA == IF ~Valid(form.Validator)
              THEN renderPage(r0, StatusUnprocessableEntity, "login.tmpl", form)
              ELSE r0
        au == Authenticate(tbl, form.Email, form.Password, dbOk)
        rB == Called([rA EXCEPT !.db = IF dbOk THEN "ok" ELSE "err",
                                !.authRes = au],
                     "users.Authenticate")
        bad == [form EXCEPT !.Validator =
                   AddNonFieldError(@, "Incorrect email or password")]
    IN  IF ~body.parseOk
        THEN [r |-> Return(clientError(r, StatusBadRequest)),
              store |-> storeTbl, renewed |-> FALSE]
        ELSE IF rA.pc = "panic"
        THEN [r |-> rA, store |-> storeTbl, renewed |-> FALSE]
        ELSE IF au.err = ErrInvalidCredentials
        THEN [r |-> Returned(renderPage([rB EXCEPT !.form = bad], StatusOK,
                                        "login.tmpl", bad)),
              store |-> storeTbl, renewed |-> FALSE]
        ELSE IF au.err /= "nil"
        THEN [r |-> Return(serverError(rB, au.err)),
              store |-> storeTbl, renewed |-> FALSE]
        ELSE userLoginPostRenew(rB, storeTbl, newToken, renewOk, au.id)

\* userLogoutPost that renews the token and leaves the user id in the session.
userLogoutPostNoRemove(r, storeTbl, newToken, renewOk) ==
    LET renew == SessionRenewToken(r.sess, storeTbl, newToken, renewOk)
        r1 == Called(r, "sessionManager.RenewToken")
        sd2 == SessionPut(renew.sd, "flash",
                          "You have been logged out successfully!")
    IN  IF ~r.sess.loaded
        THEN [r |-> Panic(r, "scs: no session data in context"),
              store |-> storeTbl, renewed |-> FALSE]
        ELSE IF renew.err /= "nil"
        THEN [r |-> Return(serverError(r1, renew.err)),
              store |-> storeTbl, renewed |-> FALSE]
        ELSE [r |-> Return(Redirect([r1 EXCEPT !.sess = sd2], "/",
                                    StatusSeeOther)),
              store |-> renew.store, renewed |-> TRUE]

userLogoutPost(r, storeTbl, newToken, renewOk) ==
    LET renew == SessionRenewToken(r.sess, storeTbl, newToken, renewOk)
        r1 == Called(r, "sessionManager.RenewToken")
        sd1 == SessionRemove(renew.sd, "authenticatedUserID")
        sd2 == SessionPut(sd1, "flash", "You have been logged out successfully!")
    IN  IF ~r.sess.loaded
        THEN [r |-> Panic(r, "scs: no session data in context"),
              store |-> storeTbl, renewed |-> FALSE]
        ELSE IF renew.err /= "nil"
        THEN [r |-> Return(serverError(r1, renew.err)),
              store |-> storeTbl, renewed |-> FALSE]
        ELSE [r |-> Return(Redirect([r1 EXCEPT !.sess = sd2], "/",
                                    StatusSeeOther)),
              store |-> renew.store, renewed |-> TRUE]

(***************************************************************************)
(* Bounds and inputs of the model.                                         *)
(***************************************************************************)
\* Session tokens the session manager can generate.
MaxTokens == 2

\* Rows the users table can be given (its AUTO_INCREMENT ids).
MaxUsers == 1

\* Rows the snippets table can be given.
MaxSnippets == 1

\* Days the clock can advance.
MaxDays == 1

\* The requests the server can be serving at once.
Slots == {"r1", "r2"}

\* The token of the CSRF cookie a client holds, and the one nosurf generates
\* for a request without the cookie: no client knows that one.
CsrfCookieToken == "c1"

CsrfFreshToken == "c2"

EmailA == <<"a", "@", "b">>

EmailB == <<"c", "@", "b">>

PasswordA == <<"p", "p", "p", "p", "p", "p", "p", "p">>

PasswordB == <<"q", "q", "q", "q", "q", "q", "q", "q">>

\* The bodies a POST to /user/login carries.
LoginBodies ==
    {[parseOk |-> FALSE, email |-> <<>>, password |-> <<>>],
     [parseOk |-> TRUE, email |-> EmailA, password |-> PasswordA],
     [parseOk |-> TRUE, email |-> EmailA, password |-> PasswordB],
     [parseOk |-> TRUE, email |-> EmailB, password |-> PasswordA],
     [parseOk |-> TRUE, email |-> <<" ">>, password |-> PasswordA],
     [parseOk |-> TRUE, email |-> <<"a">>, password |-> PasswordA],
     [parseOk |-> TRUE, email |-> EmailA, password |-> <<>>]}

\* The bodies a POST to /user/signup carries.
SignupBodies ==
    {[parseOk |-> FALSE, name |-> <<>>, email |-> <<>>, password |-> <<>>],
     [parseOk |-> TRUE, name |-> <<"n">>, email |-> EmailA, password |-> PasswordA],
     [parseOk |-> TRUE, name |-> <<>>, email |-> EmailA, password |-> PasswordA],
     [parseOk |-> TRUE, name |-> <<"n">>, email |-> <<"a">>, password |-> PasswordA],
     [parseOk |-> TRUE, name |-> <<"n">>, email |-> EmailA,
      password |-> SubSeq(PasswordA, 1, 7)]}

\* The bodies a POST to /snippet/create carries.
SnippetBodies ==
    {[parseOk |-> FALSE, title |-> <<>>, content |-> <<>>, expires |-> <<>>],
     [parseOk |-> TRUE, title |-> <<"t">>, content |-> <<"c">>, expires |-> <<"1">>],
     [parseOk |-> TRUE, title |-> <<"t">>, content |-> <<"c">>, expires |-> <<"3">>],
     [parseOk |-> TRUE, title |-> <<>>, content |-> <<"c">>, expires |-> <<"1">>],
     [parseOk |-> TRUE, title |-> <<"t">>, content |-> <<"c">>, expires |-> <<"a">>]}

\* The id parameter of /snippet/view/:id.
ViewParams == {<<"a">>, <<"0">>, <<"1">>}

VARIABLES
    req,            \* the request each slot is serving
    store,          \* the session store: token -> values
    nextToken,      \* the next token the session manager generates
    users,          \* the users table
    nextUserId,     \* its AUTO_INCREMENT counter
    snippets,       \* the snippets table
    nextSnippetId,  \* its AUTO_INCREMENT counter
    now,            \* UTC_TIMESTAMP(), in days
    logoutTokens,   \* the tokens userLogoutPost's renewals issued
    v,      \* a Validator value under a sequence of calls
    vhist,  \* the calls made on v so far, in order
    vret,   \* what the last call returned, when it was Valid(): "none" otherwise
    fcall   \* a call of a validation function: its arguments and its result

webVars ==
    <<req, store, nextToken, users, nextUserId, snippets, nextSnippetId, now,
      logoutTokens>>

validatorVars == <<v, vhist, vret, fcall>>

vars == <<webVars, validatorVars>>

(***************************************************************************)
(* The validator under arbitrary calls.                                    *)
(***************************************************************************)
VFields == {"title", "content"}
VMessages == {"This field cannot be blank", "This field is too long"}

NoCall == [fn |-> "none"]

VInit ==
    /\ v = NewValidator
    /\ vhist = <<>>
    /\ vret = "none"
    /\ fcall = NoCall

\* The users table the server finds when it starts: empty, or holding the
\* account an earlier run of the server inserted.
StoredUsers ==
    {[users |-> {}, nextId |-> 1, err |-> "nil"],
     UserInsert({}, 1, <<"n">>, EmailA, PasswordA, TRUE)}

WebInit ==
    /\ req = [s \in Slots |-> IdleRequest]
    /\ store = [t \in {} |-> EmptyMap]
    /\ nextToken = 1
    /\ \E db \in StoredUsers : users = db.users /\ nextUserId = db.nextId
    /\ snippets = {}
    /\ nextSnippetId = 1
    /\ now = 0
    /\ logoutTokens = {}

Init == WebInit /\ VInit

CallCheckField ==
    \E ok \in BOOLEAN, key \in VFields, message \in VMessages :
        /\ Len(vhist) < MaxCalls
        /\ v' = CheckField(v, ok, key, message)
        /\ vhist' = Append(vhist, [op |-> "CheckField", ok |-> ok,
                                   key |-> key, message |-> message])
        /\ vret' = "none"
        /\ UNCHANGED <<webVars, fcall>>

CallAddFieldError ==
    \E key \in VFields, message \in VMessages :
        /\ Len(vhist) < MaxCalls
        /\ v' = AddFieldError(v, key, message)
        /\ vhist' = Append(vhist, [op |-> "AddFieldError", ok |-> FALSE,
                                   key |-> key, message |-> message])
        /\ vret' = "none"
        /\ UNCHANGED <<webVars, fcall>>

CallAddNonFieldError ==
    \E message \in VMessages :
        /\ Len(vhist) < MaxCalls
        /\ v' = AddNonFieldError(v, message)
        /\ vhist' = Append(vhist, [op |-> "AddNonFieldError", ok |-> FALSE,
                                   key |-> "", message |-> message])
        /\ vret' = "none"
        /\ UNCHANGED <<webVars, fcall>>

CallValid ==
    /\ Len(vhist) < MaxCalls
    /\ vret' = IF Valid(v) THEN "true" ELSE "false"
    /\ vhist' = Append(vhist, [op |-> "Valid", ok |-> FALSE,
                               key |-> "", message |-> ""])
    /\ UNCHANGED <<v, webVars, fcall>>

VNext ==
    \/ CallCheckField
    \/ CallAddFieldError
    \/ CallAddNonFieldError
    \/ CallValid

SpecValidator == Init /\ [][VNext]_vars

(***************************************************************************)
(* The validation functions, each applied once to arguments drawn from     *)
(* bounded sets.                                                           *)
(***************************************************************************)
\* The code points of the strings: one of one byte, one of two, one of three.
CodePoints == {"a", "U+00E9", "U+20AC"}

\* The UTF-8 encoding of one code point.
Utf8Encode(c) ==
    IF c = "U+00E9" THEN <<"C3", "A9">>
    ELSE IF c = "U+20AC" THEN <<"E2", "82", "AC">>
    ELSE <<c>>

RECURSIVE EncodeString(_)
\* The bytes of the Go string that holds the code points chars.
EncodeString(chars) ==
    IF chars = <<>> THEN <<>>
    ELSE Utf8Encode(Head(chars)) \o EncodeString(Tail(chars))

CharStrings == UNION {[1..n -> CodePoints] : n \in 0..MaxStr}

\* The limits the handlers pass (8 for a password, 100 for a title) and two
\* below them.
CharLimits == {0, 4, 8, 100}

PermittedDomain == {1, 5, 7, 365}

PermittedLists == UNION {[1..n -> PermittedDomain] : n \in 0..MaxPermitted}

\* The day Latest is called on, and the expiry days of the rows: the day
\* itself (expired) and the day after (not expired).
LatestToday == 1
RowExpiries == {LatestToday, LatestToday + 1}

\* The snippets tables: no row is ever deleted, so a table of n rows holds
\* the ids 1..n.
SnippetTables ==
    UNION {{{[id |-> i, title |-> <<"t">>, content |-> <<"c">>,
              created |-> 0, expires |-> e[i]] : i \in 1..n} :
            e \in [1..n -> RowExpiries]} : n \in 0..MaxRows}

FInit ==
    /\ WebInit
    /\ users = {}
    /\ v = NewValidator
    /\ vhist = <<>>
    /\ vret = "none"
    /\ \/ \E value \in PermittedDomain, permittedValues \in PermittedLists :
             fcall = [fn |-> "PermittedValue", value |-> value,
                      permittedValues |-> permittedValues,
                      done |-> FALSE, result |-> FALSE]
       \/ \E fn \in {"MinChars", "MaxChars"}, chars \in CharStrings,
             n \in CharLimits :
             fcall = [fn |-> fn, chars |-> chars,
                      value |-> EncodeString(chars), n |-> n,
                      done |-> FALSE, result |-> FALSE]
       \/ \E tbl \in SnippetTables, dbOk \in BOOLEAN :
             fcall = [fn |-> "Latest", tbl |-> tbl, today |-> LatestToday,
                      dbOk |-> dbOk, done |-> FALSE,
                      result |-> [ids |-> <<>>, err |-> "nil"]]

CallPermittedValue ==
    /\ fcall.fn = "PermittedValue"
    /\ ~fcall.done
    /\ fcall' = [fcall EXCEPT
                    !.done = TRUE,
                    !.result = PermittedValue(fcall.value,
                                              fcall.permittedValues)]
    /\ UNCHANGED <<webVars, v, vhist, vret>>

CallMinChars ==
    /\ fcall.fn = "MinChars"
    /\ ~fcall.done
    /\ fcall' = [fcall EXCEPT !.done = TRUE,
                              !.result = MinChars(fcall.value, fcall.n)]
    /\ UNCHANGED <<webVars, v, vhist, vret>>

CallMaxChars ==
    /\ fcall.fn = "MaxChars"
    /\ ~fcall.done
    /\ fcall' = [fcall EXCEPT !.done = TRUE,
                              !.result = MaxChars(fcall.value, fcall.n)]
    /\ UNCHANGED <<webVars, v, vhist, vret>>

CallLatest ==
    /\ fcall.fn = "Latest"
    /\ ~fcall.done
    /\ fcall' = [fcall EXCEPT
                    !.done = TRUE,
                    !.result = SnippetLatest(fcall.tbl, fcall.today,
                                             fcall.dbOk)]
    /\ UNCHANGED <<webVars, v, vhist, vret>>

FNext ==
    \/ CallPermittedValue
    \/ CallMinChars
    \/ CallMaxChars
    \/ CallLatest

SpecFunctions == FInit /\ [][FNext]_vars

(***************************************************************************)
(* The server: one action per middleware and per handler.  What a step    *)
(* reads of the request (a cookie, the submitted token, the body) is drawn *)
(* by the step that reads it.                                              *)
(***************************************************************************)
\* The (method, path) pairs clients send.
RequestLines ==
    {<<"GET", "/">>, <<"GET", "/snippet/view/:id">>,
     <<"GET", "/snippet/create">>, <<"POST", "/snippet/create">>,
     <<"GET", "/user/signup">>, <<"POST", "/user/signup">>,
     <<"GET", "/user/login">>, <<"POST", "/user/login">>,
     <<"POST", "/user/logout">>, <<"GET", "/favicon.ico">>}

\* The router hands the request to the chain of its route.
router(r, chain) == ServeNext([r EXCEPT !.chain = chain])

SetReq(s, r) == req' = [req EXCEPT ![s] = r]

\* A request arrives at a server whose router has the session-aware chains.
Serve(s) ==
    /\ req[s].pc = "idle"
    /\ \E line \in RequestLines :
          SetReq(s, router(standard(NewRequest(line[1], line[2])),
                           routesDynamic(line[1], line[2])))
    /\ UNCHANGED <<store, nextToken, users, nextUserId, snippets, nextSnippetId,
                   now, logoutTokens, validatorVars>>

\* A request arrives at the handler application.routes() builds.
ServeRoutes(s) ==
    /\ req[s].pc = "idle"
    /\ \E line \in RequestLines :
          SetReq(s, router(standard(NewRequest(line[1], line[2])),
                           routes(line[1], line[2])))
    /\ UNCHANGED <<store, nextToken, users, nextUserId, snippets, nextSnippetId,
                   now, logoutTokens, validatorVars>>

\* The tokens a session cookie carries: none (0), the token of a session in
\* the store, or a token that was issued and is no longer in the store; the
\* latest of those stands for all of them, Load treats them alike.
CookieTokens ==
    LET gone == (1..(nextToken - 1)) \ DOMAIN store
    IN  {0} \cup DOMAIN store
            \cup {t \in gone : \A u \in gone : u <= t}

RunLoadAndSave(s) ==
    /\ req[s].pc = "LoadAndSave"
    /\ \E token \in CookieTokens :
          SetReq(s, LoadAndSave(req[s], store, token))
    /\ UNCHANGED <<store, nextToken, users, nextUserId, snippets, nextSnippetId,
                   now, logoutTokens, validatorVars>>

RunNoSurf(s) ==
    /\ req[s].pc = "noSurf"
    /\ \E cookie \in IF req[s].method \in SafeMethods THEN {""}
                     ELSE {"", CsrfCookieToken},
          sent \in IF req[s].method \in SafeMethods THEN {""}
                   ELSE {"", CsrfCookieToken} :
          SetReq(s, noSurf(req[s], cookie, sent, CsrfFreshToken))
    /\ UNCHANGED <<store, nextToken, users, nextUserId, snippets, nextSnippetId,
                   now, logoutTokens, validatorVars>>

RunAuthenticate(s) ==
    /\ req[s].pc = "authenticate"
    /\ \E dbOk \in BOOLEAN : SetReq(s, authenticate(req[s], users, dbOk))
    /\ UNCHANGED <<store, nextToken, users, nextUserId, snippets, nextSnippetId,
                   now, logoutTokens, validatorVars>>

RunRequireAuthentication(s) ==
    /\ req[s].pc = "requireAuthentication"
    /\ SetReq(s, requireAuthentication(req[s]))
    /\ UNCHANGED <<store, nextToken, users, nextUserId, snippets, nextSnippetId,
                   now, logoutTokens, validatorVars>>

RunNotFound(s) ==
    /\ req[s].pc = "NotFound"
    /\ SetReq(s, Return(notFound(req[s])))
    /\ UNCHANGED <<store, nextToken, users, nextUserId, snippets, nextSnippetId,
                   now, logoutTokens, validatorVars>>

RunHome(s) ==
    /\ req[s].pc = "home"
    /\ \E dbOk \in BOOLEAN : SetReq(s, home(req[s], snippets, now, dbOk))
    /\ UNCHANGED <<store, nextToken, users, nextUserId, snippets, nextSnippetId,
                   now, logoutTokens, validatorVars>>

RunSnippetView(s) ==
    /\ req[s].pc = "snippetView"
    /\ \E param \in ViewParams, dbOk \in BOOLEAN :
          SetReq(s, snippetView(req[s], param, snippets, now, dbOk))
    /\ UNCHANGED <<store, nextToken, users, nextUserId, snippets, nextSnippetId,
                   now, logoutTokens, validatorVars>>

RunSnippetCreate(s) ==
    /\ req[s].pc = "snippetCreate"
    /\ SetReq(s, snippetCreate(req[s]))
    /\ UNCHANGED <<store, nextToken, users, nextUserId, snippets, nextSnippetId,
                   now, logoutTokens, validatorVars>>

RunSnippetCreatePost(s) ==
    /\ req[s].pc = "snippetCreatePost"
    /\ \E body \in SnippetBodies, dbOk \in BOOLEAN :
          LET out == snippetCreatePost([req[s] EXCEPT !.body = body], body,
                                       snippets, nextSnippetId, now, dbOk)
          IN  /\ out.nextId <= MaxSnippets + 1
              /\ SetReq(s, out.r)
              /\ snippets' = out.snippets
              /\ nextSnippetId' = out.nextId
    /\ UNCHANGED <<store, nextToken, users, nextUserId, now, logoutTokens,
                   validatorVars>>

RunUserSignup(s) ==
    /\ req[s].pc = "userSignup"
    /\ SetReq(s, userSignup(req[s]))
    /\ UNCHANGED <<store, nextToken, users, nextUserId, snippets, nextSnippetId,
                   now, logoutTokens, validatorVars>>

RunUserSignupPost(s) ==
    /\ req[s].pc = "userSignupPost"
    /\ \E body \in SignupBodies, dbOk \in BOOLEAN :
          LET out == userSignupPost([req[s] EXCEPT !.body = body], body,
                                    users, nextUserId, dbOk)
          IN  /\ out.nextId <= MaxUsers + 1
              /\ SetReq(s, out.r)
              /\ users' = out.users
              /\ nextUserId' = out.nextId
    /\ UNCHANGED <<store, nextToken, snippets, nextSnippetId, now, logoutTokens,
                   validatorVars>>

RunUserLogin(s) ==
    /\ req[s].pc = "userLogin"
    /\ SetReq(s, userLogin(req[s]))
    /\ UNCHANGED <<store, nextToken, users, nextUserId, snippets, nextSnippetId,
                   now, logoutTokens, validatorVars>>

RunUserLoginPost(s) ==
    /\ req[s].pc = "userLoginPost"
    /\ \E body \in LoginBodies, dbOk \in BOOLEAN, renewOk \in BOOLEAN :
          LET out == userLoginPost([req[s] EXCEPT !.body = body], body,
                                   users, store, nextToken, dbOk, renewOk)
          IN  /\ out.renewed => nextToken <= MaxTokens
              /\ SetReq(s, out.r)
              /\ store' = out.store
              /\ nextToken' = IF out.renewed THEN nextToken + 1 ELSE nextToken
    /\ UNCHANGED <<users, nextUserId, snippets, nextSnippetId, now, logoutTokens,
                   validatorVars>>

RunUserLogoutPost(s) ==
    /\ req[s].pc = "userLogoutPost"
    /\ \E renewOk \in BOOLEAN :
          LET out == userLogoutPost(req[s], store, nextToken, renewOk)
          IN  /\ out.renewed => nextToken <= MaxTokens
              /\ SetReq(s, out.r)
              /\ store' = out.store
              /\ nextToken' = IF out.renewed THEN nextToken + 1 ELSE nextToken
              /\ logoutTokens' = IF out.renewed
                                 THEN logoutTokens \cup {nextToken}
                                 ELSE logoutTokens
    /\ UNCHANGED <<users, nextUserId, snippets, nextSnippetId, now, validatorVars>>

\* LoadAndSave, on the way out: a modified session is committed to the store
\* under its token (a new one for a session that had none) and the cookie set.
Commit(s) ==
    /\ req[s].pc = "commit"
    /\ IF req[s].sess.status = "Modified"
       THEN LET out == SessionCommit(req[s].sess, store, nextToken)
            IN  /\ req[s].sess.token = 0 => nextToken <= MaxTokens
                /\ store' = out.store
                /\ nextToken' = IF req[s].sess.token = 0
                                THEN nextToken + 1 ELSE nextToken
                /\ SetReq(s, [req[s] EXCEPT !.pc = "done",
                                            !.sess.token = out.token,
                                            !.setCookie = out.token])
       ELSE /\ SetReq(s, [req[s] EXCEPT !.pc = "done"])
            /\ UNCHANGED <<store, nextToken>>
    /\ UNCHANGED <<users, nextUserId, snippets, nextSnippetId, now, logoutTokens,
                   validatorVars>>

\* The deferred function of recoverPanic, when a panic reaches it.
RecoverPanic(s) ==
    /\ req[s].pc = "panic"
    /\ SetReq(s, recovered(req[s]))
    /\ UNCHANGED <<store, nextToken, users, nextUserId, snippets, nextSnippetId,
                   now, logoutTokens, validatorVars>>

\* The response is complete; the slot serves the next request.
Finish(s) ==
    /\ req[s].pc = "done"
    /\ SetReq(s, IdleRequest)
    /\ UNCHANGED <<store, nextToken, users, nextUserId, snippets, nextSnippetId,
                   now, logoutTokens, validatorVars>>

\* An account is deleted from the users table, outside the application.
DeleteUser ==
    /\ \E u \in users : users' = users \ {u}
    /\ UNCHANGED <<req, store, nextToken, nextUserId, snippets, nextSnippetId,
                   now, logoutTokens, validatorVars>>

\* A day passes.
Tick ==
    /\ now < MaxDays
    /\ now' = now + 1
    /\ UNCHANGED <<req, store, nextToken, users, nextUserId, snippets,
                   nextSnippetId, logoutTokens, validatorVars>>

\* The session-aware server, serving one request at a time.
Next ==
    \/ Serve("r1")
    \/ RunLoadAndSave("r1")
    \/ RunNoSurf("r1")
    \/ RunAuthenticate("r1")
    \/ RunRequireAuthentication("r1")
    \/ RunNotFound("r1")
    \/ RunHome("r1")
    \/ RunSnippetView("r1")
    \/ RunSnippetCreate("r1")
    \/ RunSnippetCreatePost("r1")
    \/ RunUserSignup("r1")
    \/ RunUserSignupPost("r1")
    \/ RunUserLogin("r1")
    \/ RunUserLoginPost("r1")
    \/ RunUserLogoutPost("r1")
    \/ Commit("r1")
    \/ Finish("r1")
    \/ DeleteUser

Spec == Init /\ [][Next]_vars

\* The server of application.routes(), serving one request at a time.
NextRoutes ==
    \/ ServeRoutes("r1")
    \/ RunNotFound("r1")
    \/ RunHome("r1")
    \/ RunSnippetView("r1")
    \/ RunSnippetCreate("r1")
    \/ RunSnippetCreatePost("r1")
    \/ RecoverPanic("r1")
    \/ Finish("r1")
    \/ Tick

SpecRoutes == Init /\ [][NextRoutes]_vars

(***************************************************************************)
(* Two requests served concurrently, one on each slot, over a session the  *)
(* store already holds.                                                    *)
(***************************************************************************)
\* The token of the session the store holds when the two requests arrive.
PriorToken == 1

\* The session an earlier request left in the store: that of a visitor who
\* has not logged in, or that of the user who has.
PriorSessions ==
    {EmptyMap, MapPut(EmptyMap, "authenticatedUserID", 1)}

ConcurrentInit ==
    /\ req = [s \in Slots |-> IdleRequest]
    /\ \E values \in PriorSessions : store = [t \in {PriorToken} |-> values]
    /\ nextToken = PriorToken + 1
    /\ LET db == UserInsert({}, 1, <<"n">>, EmailA, PasswordA, TRUE)
       IN  users = db.users /\ nextUserId = db.nextId
    /\ snippets = {}
    /\ nextSnippetId = 1
    /\ now = 0
    /\ logoutTokens = {}
    /\ VInit

NextConcurrent ==
    \E s \in Slots :
        \/ Serve(s)
        \/ RunLoadAndSave(s)
        \/ RunNoSurf(s)
        \/ RunAuthenticate(s)
        \/ RunRequireAuthentication(s)
        \/ RunNotFound(s)
        \/ RunHome(s)
        \/ RunSnippetView(s)
        \/ RunSnippetCreate(s)
        \/ RunSnippetCreatePost(s)
        \/ RunUserSignup(s)
        \/ RunUserSignupPost(s)
        \/ RunUserLogin(s)
        \/ RunUserLoginPost(s)
        \/ RunUserLogoutPost(s)
        \/ Commit(s)

SpecConcurrent == ConcurrentInit /\ [][NextConcurrent]_vars

Recording(key) ==
    {i \in 1..Len(vhist) :
        /\ vhist[i].op \in {"CheckField", "AddFieldError"}
        /\ ~vhist[i].ok
        /\ vhist[i].key = key}

FirstRecording(key) ==
    CHOOSE i \in Recording(key) : \A j \in Recording(key) : i <= j

\* C10: a field keeps the message of the first failing check on it: later
\* failing checks on the same field do not overwrite it, a passing check
\* records nothing, and a field no check failed on has no entry.
C10_FirstErrorWins ==
    /\ DOMAIN v.FieldErrors \subseteq VFields
    /\ \A key \in VFields :
          IF Recording(key) = {}
          THEN key \notin DOMAIN v.FieldErrors
          ELSE /\ key \in DOMAIN v.FieldErrors
               /\ v.FieldErrors[key] = vhist[FirstRecording(key)].message

\* Two failing checks with different messages were made on one field, and a
\* passing check on it as well.
C10_Witness ==
    \E i, j, k \in 1..Len(vhist) :
        /\ i < j
        /\ vhist[i].op = "CheckField" /\ ~vhist[i].ok
        /\ vhist[j].op = "CheckField" /\ ~vhist[j].ok
        /\ vhist[k].op = "CheckField" /\ vhist[k].ok
        /\ vhist[i].key = vhist[j].key /\ vhist[k].key = vhist[i].key
        /\ vhist[i].message /= vhist[j].message

(***************************************************************************)
(* Properties of the server.                                               *)
(***************************************************************************)
Contains(seq, x) == \E i \in DOMAIN seq : seq[i] = x

Last(seq) == seq[Len(seq)]

\* The handler h was entered and has finished its part.
HasRun(r, h) == Contains(r.trace, h) /\ r.pc /= h

\* The one response of r is a redirect to url.
RedirectedTo(r, url) ==
    /\ Len(r.resp) = 1
    /\ r.resp[1].status = StatusSeeOther
    /\ r.resp[1].what = url

\* The one response of r is the plain error response of status.
AnsweredError(r, status) ==
    /\ Len(r.resp) = 1
    /\ r.resp[1].status = status

\* The user id the session of r holds, 0 when it holds none.
SessionUserID(r) ==
    IF "authenticatedUserID" \in DOMAIN r.sess.values
    THEN r.sess.values["authenticatedUserID"]
    ELSE 0

\* C4 (as the spec words it): the handlers of GET and POST /snippet/create
\* are entered only behind LoadAndSave, noSurf, authenticate and
\* requireAuthentication, that is for authenticated requests only.
C4_CreateBehindGate ==
    \A s \in Slots :
        req[s].pc \in {"snippetCreate", "snippetCreatePost"} =>
            /\ Contains(req[s].trace, "LoadAndSave")
            /\ Contains(req[s].trace, "noSurf")
            /\ Contains(req[s].trace, "authenticate")
            /\ Contains(req[s].trace, "requireAuthentication")
            /\ req[s].isAuthenticated

\* C5: requireAuthentication answers a request that is not authenticated
\* with 303 to /user/login and does not invoke next; for an authenticated
\* request "Cache-Control: no-store" is set by the time next is invoked.
C5_RequireAuthentication ==
    \A s \in Slots :
        LET r == req[s]
        IN  HasRun(r, "requireAuthentication") =>
                IF r.isAuthenticated
                THEN /\ "Cache-Control: no-store" \in r.header
                     /\ Last(r.trace) /= "requireAuthentication"
                ELSE /\ Last(r.trace) = "requireAuthentication"
                     /\ RedirectedTo(r, "/user/login")
                     /\ r.pc \in {"commit", "done"}

\* An authenticated request has passed the gate and its handler is about to
\* run, the header set.
C5_Witness ==
    \E s \in Slots :
        /\ req[s].pc = "snippetCreatePost"
        /\ req[s].isAuthenticated
        /\ Contains(req[s].trace, "requireAuthentication")
        /\ "Cache-Control: no-store" \in req[s].header

\* The step of slot s runs the handler h of its request to its end.
Ran(s, h) == req[s].pc = h /\ req'[s].pc /= h

\* The step of slot s passes control to the next handler of the chain.
NextInvoked(s) ==
    /\ req'[s].pc = Head(req[s].chain)
    /\ req'[s].trace = Append(req[s].trace, Head(req[s].chain))

\* C6: authenticate marks a request authenticated exactly when the session
\* holds a non-zero user id and the users table has that id.  With no id it
\* passes the request on unmarked; with an id of a deleted account it passes
\* the request on unmarked; when Exists fails it answers 500 and does not
\* invoke next.  No other handler sets the mark.
C6_Authenticate ==
    [][\A s \in Slots :
        /\ Ran(s, "authenticate") =>
              LET id == SessionUserID(req[s])
                  r2 == req'[s]
              IN  /\ id = 0 => NextInvoked(s) /\ ~r2.isAuthenticated
                  /\ (id /= 0 /\ r2.db /= "err") =>
                        /\ NextInvoked(s)
                        /\ r2.isAuthenticated <=> \E u \in users : u.id = id
                  /\ (id /= 0 /\ r2.db = "err") =>
                        /\ AnsweredError(r2, StatusInternalServerError)
                        /\ r2.trace = req[s].trace
                        /\ r2.pc = "commit"
                        /\ ~r2.isAuthenticated
        /\ (req[s].pc /= "authenticate" /\ req'[s].isAuthenticated) =>
              req[s].isAuthenticated
      ]_vars

\* The session holds the id of an account that no longer exists: Exists has
\* answered, the request is not marked and has gone on to its next handler.
C6_Witness ==
    \E s \in Slots :
        /\ HasRun(req[s], "authenticate")
        /\ Last(req[s].trace) /= "authenticate"
        /\ SessionUserID(req[s]) /= 0
        /\ req[s].db = "ok"
        /\ Contains(req[s].calls, "users.Exists")
        /\ ~req[s].isAuthenticated
        /\ ~\E u \in users : u.id = SessionUserID(req[s])

\* C8: a request with a state-mutating method whose submitted CSRF token
\* does not match the token of its cookie is answered 400 by noSurf and no
\* handler behind noSurf runs, whatever the session holds.
C8_CsrfRejects ==
    \A s \in Slots :
        LET r == req[s]
        IN  (/\ HasRun(r, "noSurf")
             /\ r.method \notin SafeMethods
             /\ r.csrfSent /= r.csrfReal) =>
                /\ AnsweredError(r, StatusBadRequest)
                /\ Last(r.trace) = "noSurf"
                /\ r.pc \in {"commit", "done"}

\* A POST on a session that holds a user id was rejected by noSurf.
C8_Witness ==
    \E s \in Slots :
        /\ HasRun(req[s], "noSurf")
        /\ req[s].method = "POST"
        /\ req[s].csrfSent /= req[s].csrfReal
        /\ SessionUserID(req[s]) /= 0
        /\ AnsweredError(req[s], StatusBadRequest)
        /\ Last(req[s].trace) = "noSurf"

\* C3: when the database answers, Authenticate returns the same pair for an
\* e-mail that has no row and for an e-mail whose row has another password:
\* id 0 and ErrInvalidCredentials.
C3_SameOutcome ==
    [][\A s \in Slots :
        (/\ Ran(s, "userLoginPost")
         /\ Contains(req'[s].calls, "users.Authenticate")
         /\ req'[s].db = "ok") =>
            LET email == req'[s].form.Email
                password == req'[s].form.Password
                noRow == ~\E u \in users : u.email = email
                wrongPassword ==
                    \E u \in users : /\ u.email = email
                                     /\ u.hashed_password.password /= password
            IN  (noRow \/ wrongPassword) =>
                    req'[s].authRes = [id |-> 0, err |-> ErrInvalidCredentials]
      ]_vars

\* Authenticate has refused the wrong password of an existing account.
C3_Witness ==
    \E s \in Slots :
        /\ req[s].form.kind = "userLoginForm"
        /\ req[s].db = "ok"
        /\ req[s].authRes = [id |-> 0, err |-> ErrInvalidCredentials]
        /\ \E u \in users : /\ u.email = req[s].form.Email
                            /\ u.hashed_password.password /= req[s].form.Password

\* C7 (as the spec words it): after a login form that failed validation the
\* handler has rendered the form with 422 and nothing else: Authenticate was
\* not called, the session token was not renewed, no second response written.
C7_InvalidLoginStops ==
    \A s \in Slots :
        LET r == req[s]
        IN  (/\ r.pc \in {"commit", "done"}
             /\ r.form.kind = "userLoginForm"
             /\ DOMAIN r.form.Validator.FieldErrors /= {}) =>
                /\ AnsweredError(r, StatusUnprocessableEntity)
                /\ ~Contains(r.calls, "users.Authenticate")
                /\ ~Contains(r.calls, "sessionManager.RenewToken")

\* The request is a POST to /user/login that the handler answered with the
\* redirect of a successful login.
LoginSucceeded(r) ==
    /\ r.method = "POST"
    /\ r.path = "/user/login"
    /\ Len(r.resp) > 0
    /\ Last(r.resp).status = StatusSeeOther
    /\ Last(r.resp).what = "/snippet/create"

ProtectedRoute(r) ==
    Contains(routesDynamic(r.method, r.path), "requireAuthentication")

\* The handler of the route of the request.
RouteHandler(r) == Last(routesDynamic(r.method, r.path))

\* The request is a POST to /user/logout that the handler answered with the
\* redirect of a logout.
LogoutSucceeded(r) ==
    /\ r.method = "POST"
    /\ r.path = "/user/logout"
    /\ Len(r.resp) > 0
    /\ Last(r.resp).status = StatusSeeOther
    /\ Last(r.resp).what = "/"

\* After a logout the session, under its renewed token, holds no
\* authenticatedUserID: in the request that logged out and in the store.
LoggedOutSessionHoldsNoUser ==
    /\ \A s \in Slots :
          (req[s].pc \in {"commit", "done"} /\ LogoutSucceeded(req[s])) =>
              SessionUserID(req[s]) = 0
    /\ \A t \in logoutTokens \cap DOMAIN store :
          "authenticatedUserID" \notin DOMAIN store[t]

C11_ExpiresRejected ==
    [][\A s \in Slots :
        (/\ Ran(s, "snippetCreatePost")
         /\ req'[s].form.kind = "snippetCreateForm"
         /\ req'[s].form.Expires \notin {1, 7, 365}) =>
            /\ AnsweredError(req'[s], StatusUnprocessableEntity)
            /\ req'[s].resp[1].what = "create.tmpl"
            /\ "expires" \in DOMAIN req'[s].resp[1].data.Form.Validator.FieldErrors
            /\ ~Contains(req'[s].calls, "snippets.Insert")
            /\ snippets' = snippets
            /\ nextSnippetId' = nextSnippetId
            /\ "flash" \notin DOMAIN req'[s].sess.values
      ]_vars

\* A form with a title, a content and expires = 3 was answered with 422, the
\* only field error being the one on expires.
C11_Witness ==
    \E s \in Slots :
        /\ req[s].pc \in {"commit", "done"}
        /\ req[s].form.kind = "snippetCreateForm"
        /\ req[s].form.Expires = 3
        /\ DOMAIN req[s].form.Validator.FieldErrors = {"expires"}
        /\ AnsweredError(req[s], StatusUnprocessableEntity)

\* Some row of the snippets table has this id and expires later than now.
LiveSnippet(id) == \E row \in snippets : row.id = id /\ row.expires > now

\* C12: Get returns ErrNoRecord for every id that no row with a later expiry
\* has, a row that has expired included, and for no other id; snippetView
\* answers such an id with 404, never with 500.
C12_ExpiredIsNoRecord ==
    [][/\ \A id \in 1..nextSnippetId :
             (SnippetGet(snippets, id, now, TRUE).err = ErrNoRecord)
                 <=> ~LiveSnippet(id)
       /\ \A s \in Slots :
             (/\ Ran(s, "snippetView")
              /\ Contains(req'[s].calls, "snippets.Get")
              /\ req'[s].db = "ok"
              /\ ~LiveSnippet(Atoi(req'[s].param).n)) =>
                 /\ AnsweredError(req'[s], StatusNotFound)
                 /\ req'[s].pc \in {"commit", "done"}
      ]_vars

\* The row with the requested id is in the table and has expired; the
\* request was answered 404.
C12_Witness ==
    \E s \in Slots :
        /\ req[s].pc = "done"
        /\ Contains(req[s].calls, "snippets.Get")
        /\ req[s].db = "ok"
        /\ \E row \in snippets : /\ row.id = Atoi(req[s].param).n
                                 /\ row.expires <= now
        /\ AnsweredError(req[s], StatusNotFound)

\* C13 (as the spec words it): when the database fails while the snippet is
\* inserted, snippetCreatePost answers 500, sets no flash and sends no
\* redirect; a redirect to /snippet/view/{id} names a row that was persisted.
C13_InsertFailureIs500 ==
    [][\A s \in Slots :
        (Ran(s, "snippetCreatePost") /\ Contains(req'[s].calls, "snippets.Insert")) =>
            LET r2 == req'[s]
            IN  /\ r2.db = "err" =>
                      /\ AnsweredError(r2, StatusInternalServerError)
                      /\ r2.sess = req[s].sess
                      /\ snippets' = snippets
                /\ Last(r2.resp).status = StatusSeeOther =>
                      /\ Last(r2.resp).data.Snippet >= 1
                      /\ \E row \in snippets' \ snippets :
                            row.id = Last(r2.resp).data.Snippet
      ]_vars

C15_DuplicateEmail ==
    [][\A s \in Slots :
        (Ran(s, "userSignupPost") /\ Contains(req'[s].calls, "users.Insert")) =>
            LET r2 == req'[s]
                duplicate == \E u \in users : u.email = r2.form.Email
            IN  /\ (r2.db = "ok" /\ duplicate) =>
                      /\ UserInsert(users, nextUserId, r2.form.Name, r2.form.Email,
                                    r2.form.Password, TRUE).err = ErrDuplicateEmail
                      /\ AnsweredError(r2, StatusUnprocessableEntity)
                      /\ r2.resp[1].what = "signup.tmpl"
                      /\ "email" \in
                            DOMAIN r2.resp[1].data.Form.Validator.FieldErrors
                      /\ "flash" \notin DOMAIN r2.sess.values
                      /\ users' = users
                /\ r2.db = "err" =>
                      /\ AnsweredError(r2, StatusInternalServerError)
                      /\ r2.sess = req[s].sess
                      /\ users' = users
                /\ ErrDuplicateEmail \notin {"nil", ErrDriver, ErrNoRecord,
                                            ErrInvalidCredentials}
      ]_vars

\* A signup with the e-mail of an existing account was answered with 422 and
\* the field error on email.
C15_Witness ==
    \E s \in Slots :
        /\ req[s].pc \in {"commit", "done"}
        /\ Contains(req[s].calls, "users.Insert")
        /\ req[s].db = "ok"
        /\ AnsweredError(req[s], StatusUnprocessableEntity)
        /\ "email" \in DOMAIN req[s].form.Validator.FieldErrors
        /\ req[s].form.Validator.FieldErrors["email"] =
              "Email address is already in use"

\* The server of application.routes(), where the deferred function of
\* recoverPanic runs whenever a panic unwinds to it and a complete response
\* is always handed over.
SpecRoutesFair ==
    /\ SpecRoutes
    /\ WF_vars(RecoverPanic("r1"))
    /\ WF_vars(Finish("r1"))

\* C16: a panic below recoverPanic ends in the generic 500 response with the
\* header Connection: close, and the server goes on: the slot becomes free
\* again and takes the next request.
C16_PanicRecovered ==
    /\ [][\A s \in Slots :
            (req[s].pc = "panic" /\ req'[s] /= req[s]) =>
                /\ req'[s].pc = "done"
                /\ Last(req'[s].resp).status = StatusInternalServerError
                /\ Last(req'[s].resp).what = "Internal Server Error"
                /\ "Connection: close" \in req'[s].header
         ]_vars
    /\ (req["r1"].pc = "panic") ~>
           (req["r1"].pc = "idle" /\ ENABLED ServeRoutes("r1"))

\* A handler has panicked and the request was answered by the deferred
\* function.
C16_Witness ==
    \E s \in Slots :
        /\ req[s].pc = "done"
        /\ Contains(req[s].calls, "scs: no session data in context")
        /\ AnsweredError(req[s], StatusInternalServerError)
        /\ "Connection: close" \in req[s].header

\* The request on slot s takes a step of one of the four handlers on an
\* input that is a client error: a body that cannot be decoded, or a
\* snippet id that is not an integer of at least 1.
ClientErrorStep(s) ==
    \/ /\ Ran(s, "snippetCreatePost")
       /\ \/ ~req'[s].body.parseOk
          \/ Atoi(req'[s].body.expires).err /= "nil"
    \/ /\ Ran(s, "userSignupPost")
       /\ ~req'[s].body.parseOk
    \/ /\ Ran(s, "userLoginPost")
       /\ ~req'[s].body.parseOk
    \/ /\ Ran(s, "snippetView")
       /\ \/ Atoi(req'[s].param).err /= "nil"
          \/ Atoi(req'[s].param).n < 1

\* C17: every client-error outcome (undecodable form data in
\* snippetCreatePost, userSignupPost or userLoginPost; a non-integer or
\* less-than-1 id in snippetView) is answered with a single 4xx response
\* (400 for the forms, 404 for the id) and changes no server-side state: no
\* model call is made, the session is left as it was (no key written, no
\* token renewed), and the session store and the tables are unchanged.
C17_ClientErrorNoChange ==
    [][\A s \in Slots :
        ClientErrorStep(s) =>
            /\ Len(req'[s].resp) = 1
            /\ req'[s].resp[1].status =
                  IF req[s].pc = "snippetView" THEN StatusNotFound
                  ELSE StatusBadRequest
            /\ req'[s].resp[1].what = "error"
            /\ req'[s].calls = req[s].calls
            /\ req'[s].form = NoForm
            /\ req'[s].sess = req[s].sess
            /\ req'[s].heldToken = req[s].heldToken
            /\ store' = store
            /\ nextToken' = nextToken
            /\ users' = users
            /\ nextUserId' = nextUserId
            /\ snippets' = snippets
            /\ nextSnippetId' = nextSnippetId
      ]_vars

C17_Witness ==
    \E s \in Slots :
        /\ req[s].pc \in {"commit", "done"}
        /\ HasRun(req[s], "snippetCreatePost")
        /\ req[s].body.parseOk
        /\ Atoi(req[s].body.expires).err /= "nil"
        /\ req[s].isAuthenticated
        /\ AnsweredError(req[s], StatusBadRequest)

Range(seq) == {seq[i] : i \in 1..Len(seq)}

\* C18: PermittedValue(value, permitted...) is true if and only if value
\* equals at least one element of permitted: PermittedValue(5, 1, 7, 365) is
\* false, PermittedValue(7, 1, 7, 365) is true, and the result is false for
\* an empty list.
C18_PermittedValueIff ==
    (fcall.fn = "PermittedValue" /\ fcall.done) =>
        /\ fcall.result = (fcall.value \in Range(fcall.permittedValues))
        /\ fcall.permittedValues = <<>> => ~fcall.result
        /\ (fcall.value = 5 /\ fcall.permittedValues = <<1, 7, 365>>) =>
              ~fcall.result
        /\ (fcall.value = 7 /\ fcall.permittedValues = <<1, 7, 365>>) =>
              fcall.result

C18_Witness ==
    /\ fcall.fn = "PermittedValue"
    /\ fcall.done
    /\ fcall.value = 7
    /\ fcall.permittedValues = <<1, 7, 365>>
    /\ fcall.result

\* C19: MinChars(value, n) is true exactly when value holds at least n
\* code points and MaxChars(value, n) exactly when it holds at most n,
\* whatever the number of bytes that encode them: seven code points fail
\* MinChars(.., 8) and eight pass.
C19_CharsCountCodePoints ==
    /\ (fcall.fn = "MinChars" /\ fcall.done) =>
          /\ fcall.result = (Len(fcall.chars) >= fcall.n)
          /\ (Len(fcall.chars) = 7 /\ fcall.n = 8) => ~fcall.result
          /\ (Len(fcall.chars) = 8 /\ fcall.n = 8) => fcall.result
    /\ (fcall.fn = "MaxChars" /\ fcall.done) =>
          fcall.result = (Len(fcall.chars) <= fcall.n)

C19_Witness ==
    /\ fcall.fn = "MinChars"
    /\ fcall.done
    /\ fcall.n = 8
    /\ Len(fcall.chars) = 7
    /\ Len(fcall.value) >= 8
    /\ ~fcall.result

Unexpired(tbl, today) == {r.id : r \in {x \in tbl : x.expires > today}}

\* C21: Latest returns only snippets whose expiry is later than the current
\* time, at most 10 of them, in strictly descending order of id, and they
\* are the unexpired snippets with the highest ids.
C21_LatestNewestUnexpired ==
    (fcall.fn = "Latest" /\ fcall.done /\ fcall.result.err = "nil") =>
        LET ids == fcall.result.ids
            live == Unexpired(fcall.tbl, fcall.today)
        IN  /\ Range(ids) \subseteq live
            /\ Len(ids) <= 10
            /\ \A k \in 1..(Len(ids) - 1) : ids[k] > ids[k + 1]
            /\ \A i \in live \ Range(ids) :
                  /\ Len(ids) = 10
                  /\ \A k \in 1..Len(ids) : ids[k] > i

\* More than ten rows have not expired, and an expired row lies between two
\* returned ones.
C21_Witness ==
    /\ fcall.fn = "Latest"
    /\ fcall.done
    /\ fcall.result.err = "nil"
    /\ Cardinality(Unexpired(fcall.tbl, fcall.today)) > 10
    /\ Len(fcall.result.ids) = 10
    /\ \E r \in fcall.tbl :
          /\ r.expires <= fcall.today
          /\ fcall.result.ids[10] < r.id
          /\ r.id < fcall.result.ids[1]

\* The request on slot s takes a step of one of the three POST handlers in
\* which a check on a field of the decoded form failed.
ValidationFailureStep(s) ==
    /\ \/ Ran(s, "snippetCreatePost")
       \/ Ran(s, "userSignupPost")
       \/ Ran(s, "userLoginPost")
    /\ req'[s].form /= NoForm
    /\ DOMAIN req'[s].form.Validator.FieldErrors /= {}

\* The form holds the values of the body it was decoded from.
HoldsSubmitted(form, body, handler) ==
    IF handler = "snippetCreatePost"
    THEN /\ form.Title = body.title
         /\ form.Content = body.content
         /\ form.Expires = Atoi(body.expires).n
    ELSE IF handler = "userSignupPost"
    THEN /\ form.Name = body.name
         /\ form.Email = body.email
         /\ form.Password = body.password
    ELSE /\ form.Email = body.email
         /\ form.Password = body.password

\* The template of the form a handler serves.
FormPage(handler) ==
    IF handler = "snippetCreatePost" THEN "create.tmpl"
    ELSE IF handler = "userSignupPost" THEN "signup.tmpl"
    ELSE "login.tmpl"

\* C22: on every validation failure in snippetCreatePost, userSignupPost
\* and userLoginPost the response is a 422 that renders the originating form,
\* and the Form of its render data holds the values the user submitted and
\* the field errors recorded; no submitted value is discarded.
C22_ValidationFailureEchoes ==
    [][\A s \in Slots :
        ValidationFailureStep(s) =>
            /\ Len(req'[s].resp) >= 1
            /\ req'[s].resp[1].status = StatusUnprocessableEntity
            /\ req'[s].resp[1].what = FormPage(req[s].pc)
            /\ req'[s].resp[1].data.Form /= NoForm
            /\ HoldsSubmitted(req'[s].resp[1].data.Form, req'[s].body,
                              req[s].pc)
            /\ req'[s].resp[1].data.Form.Validator.FieldErrors =
                  req'[s].form.Validator.FieldErrors
            /\ req[s].pc /= "userLoginPost" => Len(req'[s].resp) = 1
      ]_vars

\* A signup with a password of seven characters was answered.
C22_Witness ==
    \E s \in Slots :
        /\ req[s].pc \in {"commit", "done"}
        /\ HasRun(req[s], "userSignupPost")
        /\ AnsweredError(req[s], StatusUnprocessableEntity)
        /\ req[s].body.parseOk
        /\ Len(req[s].body.password) = 7
        /\ req[s].resp[1].data.Form.Password = req[s].body.password
        /\ "password" \in DOMAIN req[s].resp[1].data.Form.Validator.FieldErrors

\* The tokens under which the store holds an authenticatedUserID.
AuthenticatedTokens ==
    {t \in DOMAIN store : "authenticatedUserID" \in DOMAIN store[t]}

\* C23: when two requests bearing the same session token run concurrently
\* and one of them is a successful login, then once both have completed the
\* pre-login token maps to no session carrying authenticatedUserID: only a
\* token issued by a login's renewal carries it.
C23_OldTokenNotAuthenticated ==
    \A a \in Slots : \A b \in Slots \ {a} :
        (/\ req[a].pc = "done"
         /\ req[b].pc = "done"
         /\ req[a].heldToken /= 0
         /\ req[a].heldToken = req[b].heldToken
         /\ LoginSucceeded(req[a])) =>
            /\ req[a].heldToken \notin AuthenticatedTokens
            /\ \A t \in AuthenticatedTokens :
                  \E s \in Slots : LoginSucceeded(req[s]) /\ req[s].setCookie = t

\* The same, for two requests the authenticate middleware found anonymous.
C23_AnonymousOldToken ==
    \A a \in Slots : \A b \in Slots \ {a} :
        (/\ req[a].pc = "done"
         /\ req[b].pc = "done"
         /\ req[a].heldToken /= 0
         /\ req[a].heldToken = req[b].heldToken
         /\ req[a].isAuthenticated = FALSE
         /\ req[b].isAuthenticated = FALSE
         /\ LoginSucceeded(req[a])) =>
            /\ req[a].heldToken \notin AuthenticatedTokens
            /\ \A t \in AuthenticatedTokens :
                  \E s \in Slots : LoginSucceeded(req[s]) /\ req[s].setCookie = t

\* The authenticatedUserID a stored session holds, 0 when it holds none.
StoredUserID(storeTbl, t) ==
    IF t \in DOMAIN storeTbl /\ "authenticatedUserID" \in DOMAIN storeTbl[t]
    THEN storeTbl[t]["authenticatedUserID"]
    ELSE 0

\* A step gives the session of a request an authenticatedUserID it did not
\* hold only by loading it from the store or in a login whose Authenticate
\* returned that id without error; a step gives it to a stored session only
\* by saving the session of a request that holds it.
OnlyLoginWrites ==
    /\ \A s \in Slots :
          (/\ SessionUserID(req'[s]) /= 0
           /\ SessionUserID(req'[s]) /= SessionUserID(req[s])) =>
              \/ /\ Ran(s, "LoadAndSave")
                 /\ SessionUserID(req'[s]) = StoredUserID(store, req'[s].cookie)
              \/ /\ Ran(s, "userLoginPost")
                 /\ req'[s].authRes.err = "nil"
                 /\ req'[s].authRes.id = SessionUserID(req'[s])
    /\ \A t \in DOMAIN store' :
          (/\ StoredUserID(store', t) /= 0
           /\ StoredUserID(store', t) /= StoredUserID(store, t)) =>
              \E s \in Slots :
                  /\ Ran(s, "commit")
                  /\ req'[s].setCookie = t
                  /\ SessionUserID(req[s]) = StoredUserID(store', t)

\* No completed logout was made on a session that holds an
\* authenticatedUserID.
NoUserAfterLogout ==
    \A s \in Slots :
        (req[s].pc = "done" /\ LogoutSucceeded(req[s])) =>
            /\ req[s].heldToken \notin AuthenticatedTokens
            /\ req[s].setCookie \notin AuthenticatedTokens

\* C24: a session holds a non-zero authenticatedUserID u only if
\* users.Authenticate returned u without error in a login request on that
\* session and no logout has happened on it since: signup, failed login,
\* snippet creation and the GET handlers never write that key.
C24_UserOnlyAfterLogin ==
    /\ [][OnlyLoginWrites]_vars
    /\ []NoUserAfterLogout

\* The flash message a session holds, "" when it holds none.
SessionFlash(values) ==
    IF "flash" \in DOMAIN values THEN values["flash"] ELSE ""

\* The responses that are pages built from template data.
Pages == {"home.tmpl", "view.tmpl", "create.tmpl", "signup.tmpl", "login.tmpl"}

\* The positions of the pages a step of slot s adds to the response.
NewPages(s) ==
    {k \in (Len(req[s].resp) + 1)..Len(req'[s].resp) :
        req'[s].resp[k].what \in Pages}

\* A step that builds template data shows the flash the session holds in
\* the first page it builds and in no later one, and leaves the session
\* without a flash.
ShowRemovesFlash ==
    \A s \in Slots :
        (req[s].pc /= "idle" /\ NewPages(s) /= {}) =>
            /\ \A k \in NewPages(s) :
                  req'[s].resp[k].data.Flash =
                      IF \A j \in NewPages(s) : k <= j
                      THEN SessionFlash(req[s].sess.values)
                      ELSE ""
            /\ SessionFlash(req'[s].sess.values) = ""

\* A session comes to hold a flash only by being loaded from the store or
\* by the Put of snippetCreatePost, userSignupPost or userLogoutPost before
\* their redirect.
OnlyPutsSetFlash ==
    \A s \in Slots :
        (/\ SessionFlash(req'[s].sess.values) /= ""
         /\ SessionFlash(req'[s].sess.values) /=
               SessionFlash(req[s].sess.values)) =>
            \/ /\ Ran(s, "LoadAndSave")
               /\ req'[s].cookie \in DOMAIN store
               /\ req'[s].sess.values = store[req'[s].cookie]
            \/ /\ \/ Ran(s, "snippetCreatePost")
                  \/ Ran(s, "userSignupPost")
                  \/ Ran(s, "userLogoutPost")
               /\ Last(req'[s].resp).status = StatusSeeOther

\* Once a request that showed a flash has completed, the stored session it
\* was served on holds no flash.
ShownFlashIsGone ==
    \A s \in Slots :
        (/\ req[s].pc = "done"
         /\ \E k \in 1..Len(req[s].resp) :
               /\ req[s].resp[k].what \in Pages
               /\ req[s].resp[k].data.Flash /= "") =>
            /\ req[s].heldToken \in DOMAIN store
            /\ SessionFlash(store[req[s].heldToken]) = ""

=============================================================================
